---- MODULE Spec2Model ----
(***************************************************************************)
(* A model of scraper.py: the page loop and geocoding pass of scrape(),    *)
(* the geocoder with its cache, and the two field normalizers              *)
(* normalize_time and parse_passengers_crew.                               *)
(*                                                                         *)
(* Text is modelled as a sequence of one-character strings, so that the    *)
(* regular expressions and the parsing of the code are computed character  *)
(* by character. A Python value is a record [tag, s, n]: None, a str (its  *)
(* characters in s), an int (in n) or a float (n in millionths).           *)
(***************************************************************************)
EXTENDS Integers, Sequences, FiniteSets, TLC

VARIABLES
    pc,              \* position of scrape(): "fetch", "geocode", "done", "raised"
    year,            \* loop variable of line 121
    page,            \* loop variable of lines 122-171
    all_crashes,     \* the global list of line 18
    location_cache,  \* the global dict of line 20
    gi,              \* index of the record the loop of line 174 is at
    events,          \* every request, sleep and file write of the run, in order
    csv,             \* the file written by line 183
    fn,              \* normalizer specification: which function was applied to arg
    arg,             \* normalizer / extraction specification: the input
    ret              \* normalizer / extraction specification: the outcome

vars == <<pc, year, page, all_crashes, location_cache, gi, events, csv, fn, arg, ret>>

-----------------------------------------------------------------------------
(* Text and Python values *)

Chars(s) == [i \in 1..Len(s) |-> SubSeq(s, i, i)]

None == [tag |-> "None", s |-> <<>>, n |-> 0]
Str(cs) == [tag |-> "str", s |-> cs, n |-> 0]
PyInt(k) == [tag |-> "int", s |-> <<>>, n |-> k]
PyFloat(k) == [tag |-> "float", s |-> <<>>, n |-> k]

\* Python truthiness of a value ("if not location", 'crash["Location"]')
Truthy(v) ==
    CASE v.tag = "None" -> FALSE
      [] v.tag = "str" -> v.s # <<>>
      [] OTHER -> v.n # 0

DigitChars == Chars("0123456789")
LowerAlpha == Chars("abcdefghijklmnopqrstuvwxyz")
UpperAlpha == Chars("ABCDEFGHIJKLMNOPQRSTUVWXYZ")

IsDigit(c) == \E i \in 1..Len(DigitChars) : DigitChars[i] = c
DigitVal(c) == (CHOOSE i \in 1..Len(DigitChars) : DigitChars[i] = c) - 1
Digit == {DigitChars[i] : i \in 1..Len(DigitChars)}
Space == {" ", "\t", "\n", "\r"}
IsSpace(c) == c \in Space
AllDigits(cs) == \A i \in 1..Len(cs) : IsDigit(cs[i])

\* str.upper() and str.lower(), character by character
UpperChar(c) ==
    IF \E i \in 1..Len(LowerAlpha) : LowerAlpha[i] = c
    THEN UpperAlpha[CHOOSE i \in 1..Len(LowerAlpha) : LowerAlpha[i] = c]
    ELSE c
LowerChar(c) ==
    IF \E i \in 1..Len(UpperAlpha) : UpperAlpha[i] = c
    THEN LowerAlpha[CHOOSE i \in 1..Len(UpperAlpha) : UpperAlpha[i] = c]
    ELSE c
upper(cs) == [i \in 1..Len(cs) |-> UpperChar(cs[i])]
lower(cs) == [i \in 1..Len(cs) |-> LowerChar(cs[i])]

\* str.strip(): whitespace removed at both ends
RECURSIVE lstrip(_)
lstrip(cs) == IF cs # <<>> /\ IsSpace(Head(cs)) THEN lstrip(Tail(cs)) ELSE cs
RECURSIVE rstrip(_)
rstrip(cs) ==
    IF cs # <<>> /\ IsSpace(cs[Len(cs)]) THEN rstrip(SubSeq(cs, 1, Len(cs) - 1)) ELSE cs
strip(cs) == rstrip(lstrip(cs))

StartsWith(cs, prefix) ==
    Len(cs) >= Len(prefix) /\ SubSeq(cs, 1, Len(prefix)) = prefix
From(cs, i) == SubSeq(cs, i, Len(cs))

\* int() of a string: the value of a non-empty run of digits, ValueError otherwise
RECURSIVE DigitsValue(_)
DigitsValue(cs) ==
    IF cs = <<>> THEN 0
    ELSE 10 * DigitsValue(SubSeq(cs, 1, Len(cs) - 1)) + DigitVal(cs[Len(cs)])
int(cs) ==
    IF cs # <<>> /\ AllDigits(cs)
    THEN [exc |-> FALSE, value |-> DigitsValue(cs)]
    ELSE [exc |-> TRUE, value |-> 0]

\* the longest prefix of cs made of characters of the class (a greedy "+" or "*")
RECURSIVE Run(_, _)
Run(cs, class) ==
    IF cs # <<>> /\ Head(cs) \in class THEN <<Head(cs)>> \o Run(Tail(cs), class) ELSE <<>>

\* str(n) for n >= 0, and n zero-padded to two digits ("%02d")
RECURSIVE Itoa(_)
Itoa(n) == IF n < 10 THEN <<DigitChars[n + 1]>> ELSE Itoa(n \div 10) \o <<DigitChars[(n % 10) + 1]>>
TwoDigits(n) == IF n < 10 THEN <<"0">> \o Itoa(n) ELSE Itoa(n)

-----------------------------------------------------------------------------
(* normalize_time, lines 56-83 *)

\* the directives of datetime.strptime as the regular expressions it compiles
\* %I: 1[0-2]|0[1-9]|[1-9]
MatchesI(h) ==
    /\ AllDigits(h)
    /\ \/ Len(h) = 1 /\ h[1] # "0"
       \/ Len(h) = 2 /\ h[1] = "1" /\ h[2] \in {"0", "1", "2"}
       \/ Len(h) = 2 /\ h[1] = "0" /\ h[2] # "0"
\* %H: 2[0-3]|[0-1]\d|\d
MatchesH(h) ==
    /\ AllDigits(h)
    /\ \/ Len(h) = 1
       \/ Len(h) = 2 /\ h[1] = "2" /\ h[2] \in {"0", "1", "2", "3"}
       \/ Len(h) = 2 /\ h[1] \in {"0", "1"}
\* %M: [0-5]\d|\d
MatchesM(m) ==
    /\ AllDigits(m)
    /\ \/ Len(m) = 1
       \/ Len(m) = 2 /\ m[1] \in {"0", "1", "2", "3", "4", "5"}

ValueError == [exc |-> TRUE, hour |-> 0, minute |-> 0]

\* datetime.strptime(s, "%I:%M %p"): hour digits, ":", minute digits, one or
\* more whitespace, AM or PM in any case, and nothing after it
strptime_I_M_p(s) ==
    LET h == Run(s, Digit)
        afterH == From(s, Len(h) + 1)
        m == Run(Tail(afterH), Digit)
        afterM == From(afterH, Len(m) + 2)
        ws == Run(afterM, Space)
        p == upper(From(afterM, Len(ws) + 1))
        I == DigitsValue(h)
    IN  IF /\ MatchesI(h)
           /\ afterH # <<>> /\ Head(afterH) = ":"
           /\ MatchesM(m)
           /\ ws # <<>>
           /\ p \in {Chars("AM"), Chars("PM")}
        THEN [exc |-> FALSE,
              hour |-> IF p = Chars("PM") THEN (IF I = 12 THEN 12 ELSE I + 12)
                       ELSE (IF I = 12 THEN 0 ELSE I),
              minute |-> DigitsValue(m)]
        ELSE ValueError

\* datetime.strptime(s, "%H:%M"): hour digits, ":", minute digits, and nothing
\* after them
strptime_H_M(s) ==
    LET h == Run(s, Digit)
        afterH == From(s, Len(h) + 1)
        m == IF afterH = <<>> THEN <<>> ELSE Tail(afterH)
    IN  IF /\ MatchesH(h)
           /\ afterH # <<>> /\ Head(afterH) = ":"
           /\ MatchesM(m)
        THEN [exc |-> FALSE, hour |-> DigitsValue(h), minute |-> DigitsValue(m)]
        ELSE ValueError

\* dt.strftime("%H:%M")
strftime_H_M(dt) == TwoDigits(dt.hour) \o <<":">> \o TwoDigits(dt.minute)

Returned(v) == [raised |-> FALSE, value |-> v]

\* TimeTryBody with the zero-padding of line 71 left out
TimeTryBodyNoPad(time_str) ==
    LET s == upper(strip(time_str)) IN
    IF Len(s) \in {3, 4} /\ AllDigits(s)
    THEN [exc |-> FALSE, s |-> s, value |-> Str(SubSeq(s, 1, 2) \o <<":">> \o From(s, 3))]
    ELSE LET dt == strptime_I_M_p(s)
         IN  IF dt.exc THEN [exc |-> TRUE, s |-> s, value |-> None]
             ELSE [exc |-> FALSE, s |-> s, value |-> Str(strftime_H_M(dt))]

\* lines 65-76, the body of the outer try; exc when it raises
TimeTryBody(time_str) ==
    LET s == upper(strip(time_str)) IN
    IF Len(s) \in {3, 4} /\ AllDigits(s)
    THEN LET padded == IF Len(s) = 3 THEN <<"0">> \o s ELSE s
         IN  [exc |-> FALSE, s |-> s,
              value |-> Str(SubSeq(padded, 1, 2) \o <<":">> \o From(padded, 3))]
    ELSE LET dt == strptime_I_M_p(s)
         IN  IF dt.exc THEN [exc |-> TRUE, s |-> s, value |-> None]
             ELSE [exc |-> FALSE, s |-> s, value |-> Str(strftime_H_M(dt))]

\* lines 78-83, the except clause of the outer try with its own try; time_str is
\* the variable as line 66 left it
TimeFallback(time_str) ==
    LET dt == strptime_H_M(time_str)
    IN  IF dt.exc THEN Returned(None) ELSE Returned(Str(strftime_H_M(dt)))

normalize_time(time_str) ==
    IF time_str = <<>> \/ strip(time_str) \in {<<"?">>, <<>>}
    THEN Returned(None)
    ELSE LET body == TimeTryBody(time_str)
         IN  IF body.exc THEN TimeFallback(body.s) ELSE Returned(body.value)

-----------------------------------------------------------------------------
(* parse_passengers_crew, lines 87-117 *)

DigitOrQ == Digit \cup {"?"}

\* re.search(marker + r"([\d?]+)", text): group 1 of the leftmost match, <<>>
\* when there is none (a match has at least one character in the group)
RECURSIVE SearchGroup(_, _)
SearchGroup(text, marker) ==
    IF Len(text) <= Len(marker) THEN <<>>
    ELSE IF StartsWith(text, marker) /\ text[Len(marker) + 1] \in DigitOrQ
         THEN Run(From(text, Len(marker) + 1), DigitOrQ)
         ELSE SearchGroup(Tail(text), marker)

\* lines 100-106 and 109-115: the sub-value after a marker
SubValue(text, marker) ==
    LET g == SearchGroup(text, marker) IN
    IF g = <<>> THEN [exc |-> FALSE, value |-> None]
    ELSE IF g = <<"?">> THEN [exc |-> FALSE, value |-> None]
    ELSE IF int(g).exc THEN [exc |-> TRUE, value |-> None]
    ELSE [exc |-> FALSE, value |-> PyInt(int(g).value)]

\* lines 95-97: re.match(r"(\d+)", text)
TotalOf(text) ==
    LET g == Run(text, Digit) IN
    IF g = <<>> THEN None ELSE PyInt(int(g).value)

parse_passengers_crew(text) ==
    LET total == TotalOf(text)
        passengers == SubValue(text, Chars("passengers:"))
        crew == SubValue(text, Chars("crew:"))
    IN  IF passengers.exc \/ crew.exc THEN [raised |-> TRUE, value |-> <<None, None, None>>]
        ELSE [raised |-> FALSE, value |-> <<total, passengers.value, crew.value>>]

-----------------------------------------------------------------------------
(* Configuration, lines 9-16 *)

START_YEAR == 2000
\* the range of line 10 (2025) cut down to YearSpan years
YearSpan == 2
END_YEAR == START_YEAR + YearSpan - 1
DELAY == 1
\* the server has no page beyond MaxPage in any year
MaxPage == 1

FIELDS == <<"Date", "Time", "Location", "Operator", "Flight #", "Route",
            "AC Type", "Registration", "cn / ln", "Aboard", "Fatalities",
            "Ground", "Summary">>
FieldSet == {FIELDS[i] : i \in 1..Len(FIELDS)}

\* BASE_YEAR_URL.format(year=year, page=page)
Url(y, p) ==
    Chars("https://www.planecrashinfo.com/") \o Itoa(y) \o <<"/">> \o Itoa(y)
        \o <<"-">> \o Itoa(p) \o Chars(".htm")

-----------------------------------------------------------------------------
(* Dictionaries: functions with a finite domain *)

EmptyDict == <<>>
Put(d, k, v) == [x \in (DOMAIN d) \cup {k} |-> IF x = k THEN v ELSE d[x]]

-----------------------------------------------------------------------------
(* Row extraction, lines 139-164. A table is the sequence of its rows and a row *)
(* the sequence of the texts of its td cells.                                   *)

\* get_text(strip=True) of a cell, and str.replace(":", "")
get_text(cell) == strip(cell)
RECURSIVE RemoveColons(_)
RemoveColons(cs) ==
    IF cs = <<>> THEN <<>>
    ELSE (IF Head(cs) = ":" THEN <<>> ELSE <<Head(cs)>>) \o RemoveColons(Tail(cs))

\* line 147: label in FIELDS
InFIELDS(label) == \E f \in FieldSet : Chars(f) = label
FieldOf(label) == CHOOSE f \in FieldSet : Chars(f) = label

PutTriple(d, name, t) ==
    Put(Put(Put(d, name \o " Total", t[1]), name \o " Passengers", t[2]),
        name \o " Crew", t[3])

\* ExtractRow without the branches of lines 151-160: a count cell is stored
\* like any other cell, under the label of its row
ExtractRowBareCounts(crash_data, row) ==
    IF Len(row) # 2 THEN [raised |-> FALSE, value |-> crash_data]
    ELSE LET label == RemoveColons(get_text(row[1]))
             value == get_text(row[2])
         IN  IF ~InFIELDS(label) THEN [raised |-> FALSE, value |-> crash_data]
             ELSE IF FieldOf(label) = "Time"
             THEN [raised |-> FALSE,
                   value |-> Put(crash_data, "Time", normalize_time(value).value)]
             ELSE IF value = <<"?">>
             THEN [raised |-> FALSE, value |-> Put(crash_data, FieldOf(label), None)]
             ELSE [raised |-> FALSE, value |-> Put(crash_data, FieldOf(label), Str(value))]

\* lines 142-164: one iteration of the loop over the rows; raised when
\* parse_passengers_crew raises
ExtractRow(crash_data, row) ==
    IF Len(row) # 2 THEN [raised |-> FALSE, value |-> crash_data]
    ELSE LET label == RemoveColons(get_text(row[1]))
             value == get_text(row[2])
         IN  IF ~InFIELDS(label) THEN [raised |-> FALSE, value |-> crash_data]
             ELSE IF FieldOf(label) = "Time"
             THEN [raised |-> FALSE,
                   value |-> Put(crash_data, "Time", normalize_time(value).value)]
             ELSE IF FieldOf(label) \in {"Aboard", "Fatalities"}
             THEN LET r == parse_passengers_crew(value)
                  IN  IF r.raised THEN [raised |-> TRUE, value |-> crash_data]
                      ELSE [raised |-> FALSE,
                            value |-> PutTriple(crash_data, FieldOf(label), r.value)]
             ELSE IF value = <<"?">>
             THEN [raised |-> FALSE, value |-> Put(crash_data, FieldOf(label), None)]
             ELSE [raised |-> FALSE, value |-> Put(crash_data, FieldOf(label), Str(value))]

\* lines 139-164: crash_data after the rows of the table
RECURSIVE ExtractFrom(_, _)
ExtractFrom(crash_data, rows) ==
    IF rows = <<>> THEN [raised |-> FALSE, value |-> crash_data]
    ELSE LET r == ExtractRow(crash_data, Head(rows))
         IN  IF r.raised THEN r ELSE ExtractFrom(r.value, Tail(rows))
ExtractRecord(rows) == ExtractFrom(EmptyDict, rows)

-----------------------------------------------------------------------------
(* The geocoder, lines 22-53 *)

LocationPrefixes == <<Chars("near"), Chars("off"), Chars("over")>>

\* re.sub(r"^(Near|Off|Over)\s+", "", location, flags=re.IGNORECASE): the first
\* alternative that the start of the text matches, with the blanks after it
PrefixMatch(cs) ==
    LET hits == {i \in 1..Len(LocationPrefixes) :
                    /\ StartsWith(lower(cs), LocationPrefixes[i])
                    /\ Run(From(cs, Len(LocationPrefixes[i]) + 1), Space) # <<>>}
    IN  IF hits = {} THEN 0
        ELSE LET i == CHOOSE x \in hits : \A y \in hits : x <= y
                 n == Len(LocationPrefixes[i])
             IN  n + Len(Run(From(cs, n + 1), Space))

clean_location(location) ==
    IF location = <<>> THEN location
    ELSE strip(From(location, PrefixMatch(location) + 1))

\* float() of a decimal text: an optional minus sign, digits, and optionally a
\* point and digits (digits on one side of the point at least); the value in
\* millionths. Any other text raises ValueError here.
float(cs) ==
    LET neg == cs # <<>> /\ Head(cs) = "-"
        body == IF neg THEN Tail(cs) ELSE cs
        whole == Run(body, Digit)
        rest == From(body, Len(whole) + 1)
        frac == IF rest # <<>> /\ Head(rest) = "." THEN Tail(rest) ELSE <<>>
        padded == SubSeq(frac \o Chars("000000"), 1, 6)
        micro == DigitsValue(whole) * 1000000 + DigitsValue(padded)
    IN  IF /\ whole # <<>> \/ frac # <<>>
           /\ rest = <<>> \/ (Head(rest) = "." /\ AllDigits(frac))
        THEN [exc |-> FALSE, value |-> IF neg THEN 0 - micro ELSE micro]
        ELSE [exc |-> TRUE, value |-> 0]

\* what the geocoding service does with one request: the request fails
\* (network error, error status, body that is not JSON), or answers a list
\* of results, each with a lat and a lon text
ServiceFailure == [exc |-> TRUE, data |-> <<>>]
ServiceNoResult == [exc |-> FALSE, data |-> <<>>]
ServiceResults ==
    {[exc |-> FALSE, data |-> <<[lat |-> Chars("41.88"), lon |-> Chars("-87.62")],
                                [lat |-> Chars("0"), lon |-> Chars("0")]>>],
     [exc |-> FALSE, data |-> <<[lat |-> Chars("n/a"), lon |-> Chars("0.0")]>>]}

NoPair == <<None, None>>

\* the request of line 41, with the raw location it is sent for
LookupEvent(location, q) ==
    [ev |-> "lookup", year |-> 0, page |-> 0, loc |-> location, q |-> q, out |-> ""]

\* lines 40-53: the try block and its except clause
LookupPair(response) ==
    IF response.exc THEN NoPair
    ELSE IF Len(response.data) = 0 THEN NoPair
    ELSE LET lat == float(response.data[1].lat)
             lon == float(response.data[1].lon)
         IN  IF lat.exc \/ lon.exc THEN NoPair
             ELSE <<PyFloat(lat.value), PyFloat(lon.value)>>

\* geocode_location with line 52 left out: a lookup that gave no coordinates
\* is not cached
geocode_location_forgets_failures(location, cache, response) ==
    IF ~Truthy(location) THEN [pair |-> NoPair, cache |-> cache, sent |-> <<>>]
    ELSE IF location.s \in DOMAIN cache
    THEN [pair |-> cache[location.s], cache |-> cache, sent |-> <<>>]
    ELSE LET pair == LookupPair(response)
         IN  [pair |-> pair,
              cache |-> IF pair = NoPair THEN cache ELSE Put(cache, location.s, pair),
              sent |-> <<LookupEvent(location.s, clean_location(location.s))>>]

\* geocode_location with lines 36-37 left out: the cache is written, never read
geocode_location_uncached(location, cache, response) ==
    IF ~Truthy(location) THEN [pair |-> NoPair, cache |-> cache, sent |-> <<>>]
    ELSE LET pair == LookupPair(response)
         IN  [pair |-> pair,
              cache |-> Put(cache, location.s, pair),
              sent |-> <<LookupEvent(location.s, clean_location(location.s))>>]

\* geocode_location(location) with the cache as it stands; response is what the
\* service does if it is asked. The result: the pair returned, the cache after
\* the call and the requests the call has sent.
geocode_location(location, cache, response) ==
    IF ~Truthy(location) THEN [pair |-> NoPair, cache |-> cache, sent |-> <<>>]
    ELSE IF location.s \in DOMAIN cache
    THEN [pair |-> cache[location.s], cache |-> cache, sent |-> <<>>]
    ELSE LET pair == LookupPair(response)
         IN  [pair |-> pair,
              cache |-> Put(cache, location.s, pair),
              sent |-> <<LookupEvent(location.s, clean_location(location.s))>>]

-----------------------------------------------------------------------------
(* scrape(), lines 120-184 *)

\* the crash tables the server may answer a page request with
Table(date, time, location, aboard) ==
    <<<<Chars("Date:"), Chars(date)>>,
      <<Chars("Time:"), Chars(time)>>,
      <<Chars("Location:"), Chars(location)>>,
      <<Chars("Aboard:"), Chars(aboard)>>>>
Tables ==
    {Table("Jan 01", "1600", "Near Chicago", "7 (passengers:6 crew:1)"),
     Table("Feb 02", "?", "Chicago", "8 (passengers:? crew:?)"),
     Table("Mar 03", "4:00 PM", "?", "?"),
     Table("Apr 04", "c 9:00", "Near Chicago", "2 (passengers:1? crew:1)"),
     <<<<Chars("Photo:"), Chars("none")>>>>}

GetEvent(y, p, outcome) ==
    [ev |-> "get", year |-> y, page |-> p, loc |-> <<>>, q |-> <<>>, out |-> outcome]
SleepEvent ==
    [ev |-> "sleep", year |-> 0, page |-> DELAY, loc |-> <<>>, q |-> <<>>, out |-> ""]
WriteEvent ==
    [ev |-> "write", year |-> 0, page |-> 0, loc |-> <<>>, q |-> <<>>, out |-> ""]

ScrapeInit ==
    /\ pc = "fetch"
    /\ year = START_YEAR
    /\ page = 1
    /\ all_crashes = <<>>
    /\ location_cache = EmptyDict
    /\ gi = 1
    /\ events = <<>>
    /\ csv = <<>>

ScrapeVars == <<pc, year, page, all_crashes, location_cache, gi, events, csv>>
NormVars == <<fn, arg, ret>>

Init ==
    /\ ScrapeInit
    /\ fn = "none"
    /\ arg = <<>>
    /\ ret = Returned(None)

\* Break as a continue: the while loop of line 123 goes on with the next page
BreakStaysInYear ==
    /\ page' = page + 1
    /\ UNCHANGED <<pc, year, all_crashes, location_cache, gi, csv, NormVars>>

\* the break of lines 129 and 137: the for loop of line 121 goes on with the
\* next year, or ends and the loop of line 174 starts
Break ==
    /\ IF year < END_YEAR
       THEN year' = year + 1 /\ page' = 1 /\ pc' = "fetch"
       ELSE pc' = "geocode" /\ UNCHANGED <<year, page>>
    /\ UNCHANGED <<all_crashes, location_cache, gi, csv, NormVars>>

\* lines 124-129: the request is answered with a status other than 200
FetchNon200 ==
    /\ pc = "fetch"
    /\ events' = Append(events, GetEvent(year, page, "non-200"))
    /\ Break

\* lines 124-137: the page has no crash table
FetchNoTable ==
    /\ pc = "fetch"
    /\ page <= MaxPage
    /\ events' = Append(events, GetEvent(year, page, "no table"))
    /\ Break

\* lines 166-168: the record is appended unless it is empty
Appended(crashes, crash_data, y, p) ==
    IF crash_data # EmptyDict
    THEN Append(crashes, Put(crash_data, "Url", Str(Url(y, p))))
    ELSE crashes

\* lines 124-172: the page has a crash table; its rows are extracted, the
\* record is appended, and the loop sleeps before the next page
FetchCrashPage ==
    /\ pc = "fetch"
    /\ page <= MaxPage
    /\ \E rows \in Tables :
          /\ ~ExtractRecord(rows).raised
          /\ all_crashes' = Appended(all_crashes, ExtractRecord(rows).value, year, page)
    /\ page' = page + 1
    /\ events' = events \o <<GetEvent(year, page, "table"), SleepEvent>>
    /\ UNCHANGED <<pc, year, location_cache, gi, csv, NormVars>>

\* lines 124-160: parse_passengers_crew raises on a cell of the page; nothing
\* catches it and scrape() ends there
FetchRaises ==
    /\ pc = "fetch"
    /\ page <= MaxPage
    /\ \E rows \in Tables : ExtractRecord(rows).raised
    /\ pc' = "raised"
    /\ events' = Append(events, GetEvent(year, page, "table"))
    /\ UNCHANGED <<year, page, all_crashes, location_cache, gi, csv, NormVars>>

\* line 126: requests.get raises (no connection, say); nothing catches it and
\* scrape() ends there
FetchConnectionFails ==
    /\ pc = "fetch"
    /\ pc' = "raised"
    /\ events' = Append(events, GetEvent(year, page, "no response"))
    /\ UNCHANGED <<year, page, all_crashes, location_cache, gi, csv, NormVars>>

\* line 175
HasLocation(crash) == "Location" \in DOMAIN crash /\ Truthy(crash["Location"])

\* SetCoordinates that also stores the cleaned location in the record
SetCoordinatesCleaned(crash, pair) ==
    Put(Put(Put(crash, "Location", Str(clean_location(crash["Location"].s))),
            "Latitude", pair[1]), "Longitude", pair[2])

\* lines 177-178
SetCoordinates(crash, pair) == Put(Put(crash, "Latitude", pair[1]), "Longitude", pair[2])

\* lines 174-179: one iteration of the geocoding loop over a record with a
\* location, the service doing `response` if it is asked
GeocodeRecord(response) ==
    /\ pc = "geocode"
    /\ gi <= Len(all_crashes)
    /\ HasLocation(all_crashes[gi])
    /\ LET r == geocode_location(all_crashes[gi]["Location"], location_cache, response)
       IN  /\ location_cache' = r.cache
           /\ all_crashes' = [all_crashes EXCEPT ![gi] = SetCoordinates(@, r.pair)]
           /\ events' = events \o r.sent \o <<SleepEvent>>
    /\ gi' = gi + 1
    /\ UNCHANGED <<pc, year, page, csv, NormVars>>

GeocodeServiceFails == GeocodeRecord(ServiceFailure)
GeocodeServiceNoResult == GeocodeRecord(ServiceNoResult)
GeocodeServiceResults == \E response \in ServiceResults : GeocodeRecord(response)

\* lines 174-175: a record without a location is passed over
GeocodeNoLocation ==
    /\ pc = "geocode"
    /\ gi <= Len(all_crashes)
    /\ ~HasLocation(all_crashes[gi])
    /\ gi' = gi + 1
    /\ UNCHANGED <<pc, year, page, all_crashes, location_cache, events, csv, NormVars>>

\* pd.DataFrame(all_crashes): the columns are the keys of the records, a record
\* without a key has an empty cell (None) there
DataFrame(crashes) ==
    LET columns == UNION {DOMAIN crashes[i] : i \in 1..Len(crashes)}
    IN  [columns |-> columns,
         rows |-> [i \in 1..Len(crashes) |->
                     [c \in columns |-> IF c \in DOMAIN crashes[i] THEN crashes[i][c]
                                        ELSE None]]]

\* WriteCsv inside the geocoding loop: the file is written at every record
WriteCsvInLoop ==
    /\ pc = "geocode"
    /\ csv' = <<DataFrame(all_crashes)>>
    /\ events' = Append(events, WriteEvent)
    /\ pc' = IF gi > Len(all_crashes) THEN "done" ELSE pc
    /\ UNCHANGED <<year, page, all_crashes, location_cache, gi, NormVars>>

\* lines 181-184: after the geocoding loop the file is written
WriteCsv ==
    /\ pc = "geocode"
    /\ gi > Len(all_crashes)
    /\ csv' = <<DataFrame(all_crashes)>>
    /\ events' = Append(events, WriteEvent)
    /\ pc' = "done"
    /\ UNCHANGED <<year, page, all_crashes, location_cache, gi, NormVars>>

Next ==
    \/ FetchNon200
    \/ FetchNoTable
    \/ FetchCrashPage
    \/ FetchRaises
    \/ FetchConnectionFails
    \/ GeocodeServiceFails
    \/ GeocodeServiceNoResult
    \/ GeocodeServiceResults
    \/ GeocodeNoLocation
    \/ WriteCsv

Spec == Init /\ [][Next]_vars

-----------------------------------------------------------------------------
(* The normalizers applied to one cell text: the inputs *)

MaxTextLen == 4

\* every text of at most MaxTextLen characters over the characters that matter
\* to the two functions
TextAlphabet == {"0", "1", "6", ":", "?", " ", "P", "M"}
RECURSIVE TextsOfLen(_)
TextsOfLen(k) ==
    IF k = 0 THEN {<<>>}
    ELSE {<<c>> \o t : c \in TextAlphabet, t \in TextsOfLen(k - 1)}
ShortTexts == UNION {TextsOfLen(k) : k \in 0..MaxTextLen}

\* time cells as the site writes them, and malformed ones
SampleTimes ==
    {Chars(" ? "), Chars("400"), Chars("1600"), Chars("9999"), Chars("12345"),
     Chars(" 930 "), Chars("4:00 PM"), Chars("4:00 AM"), Chars("12:30 AM"),
     Chars("12:00 PM"), Chars("04:05 pm"), Chars("4:5 PM"), Chars("4:00PM"),
     Chars("13:00 PM"), Chars("0:30 AM"), Chars("4:60 PM"), Chars("4:00  PM"),
     Chars("11:59 Pm"), Chars(" 9:15 am "), Chars("04:00"), Chars("16:00"),
     Chars("23:59"), Chars("24:00"), Chars("4:5"), Chars("16:75"),
     Chars("004:00"), Chars("00:00"), Chars("garbage"), Chars("c 16:00"),
     Chars("16:00Z"), Chars("1600Z"), Chars("4 :00 PM"), Chars("4:00 P"),
     Chars("16:00 PM"), Chars("4:00 AM PM"), Chars("1:111"), Chars("111:1"),
     Chars("7 (passengers:6 crew:1)"), Chars("8 (passengers:? crew:?)")}

\* count cells: a total, then the passengers: and crew: sub-values in brackets,
\* each part present or not and each sub-value well-formed or not
CountTotals == {<<>>, Chars("7"), Chars("12"), Chars("?")}
CountSubValues ==
    {<<>>, Chars("6"), Chars("?"), Chars("10"), Chars("??"), Chars("6?"), Chars("?6")}
CountTexts ==
    {Chars("?"), Chars("7"), Chars(" 7"), Chars("x passengers:x passengers:5")}
    \cup {t \o Chars(" (") \o pp \o Chars(" ") \o cp \o Chars(")") :
            t \in CountTotals,
            pp \in {<<>>} \cup {Chars("passengers:") \o v : v \in CountSubValues},
            cp \in {<<>>} \cup {Chars("crew:") \o v : v \in CountSubValues}}

CellTexts == ShortTexts \cup SampleTimes \cup CountTexts

-----------------------------------------------------------------------------
(* The specification of the normalizers: one cell text, one call *)

InitNorm ==
    /\ ScrapeInit
    /\ fn = "none"
    /\ arg \in CellTexts
    /\ ret = Returned(None)

CallNormalizeTime ==
    /\ fn = "none"
    /\ fn' = "normalize_time"
    /\ ret' = normalize_time(arg)
    /\ UNCHANGED <<arg, ScrapeVars>>

CallParsePassengersCrew ==
    /\ fn = "none"
    /\ fn' = "parse_passengers_crew"
    /\ ret' = parse_passengers_crew(arg)
    /\ UNCHANGED <<arg, ScrapeVars>>

NextNorm == CallNormalizeTime \/ CallParsePassengersCrew

SpecNorm == InitNorm /\ [][NextNorm]_vars

-----------------------------------------------------------------------------
(* What the normalizers are specified to return, stated on the text itself *)

\* the text between its first and its last non-blank character
TextCore(cs) ==
    LET idx == {i \in 1..Len(cs) : cs[i] \notin Space} IN
    IF idx = {} THEN <<>>
    ELSE SubSeq(cs, CHOOSE i \in idx : \A j \in idx : i <= j,
                    CHOOSE i \in idx : \A j \in idx : j <= i)

NumberTexts(k) == {Itoa(k), TwoDigits(k)}
Blank(cs) == \A i \in 1..Len(cs) : cs[i] \in Space

\* cs is "<hour>:<minute><blanks><meridiem>" for these hour and minute texts
IsClock12(cs, ht, mt, mer) ==
    LET pre == ht \o <<":">> \o mt
        n == Len(cs)
    IN  /\ StartsWith(cs, pre)
        /\ n >= Len(pre) + 3
        /\ Blank(SubSeq(cs, Len(pre) + 1, n - 2))
        /\ cs[n - 1] \in {mer[1], LowerChar(mer[1])}
        /\ cs[n] \in {"M", "m"}

Hour24(h, mer) ==
    IF mer = Chars("PM") THEN (IF h = 12 THEN 12 ELSE h + 12) ELSE (IF h = 12 THEN 0 ELSE h)

\* the HH:MM renderings of cs read as a 12-hour clock time with meridiem
Readings12(cs) ==
    LET hours == {h \in 1..12 : \E ht \in NumberTexts(h) : StartsWith(cs, ht \o <<":">>)}
    IN  {TwoDigits(Hour24(x[1], x[3])) \o <<":">> \o TwoDigits(x[2]) :
            x \in {y \in hours \X (0..59) \X {Chars("AM"), Chars("PM")} :
                     \E ht \in NumberTexts(y[1]), mt \in NumberTexts(y[2]) :
                        IsClock12(cs, ht, mt, y[3])}}

\* the HH:MM renderings of cs read as a 24-hour HH:MM time
Readings24(cs) ==
    LET hours == {h \in 0..23 : \E ht \in NumberTexts(h) : StartsWith(cs, ht \o <<":">>)}
    IN  {TwoDigits(x[1]) \o <<":">> \o TwoDigits(x[2]) :
            x \in {y \in hours \X (0..59) :
                     \E ht \in NumberTexts(y[1]), mt \in NumberTexts(y[2]) :
                        cs = ht \o <<":">> \o mt}}

\* a value that is None or a five-character text DD:DD
NoneOrClock(v) ==
    \/ v = None
    \/ /\ v.tag = "str"
       /\ Len(v.s) = 5
       /\ v.s[3] = ":"
       /\ \A i \in {1, 2, 4, 5} : v.s[i] \in Digit

BareDigits34(cs) == Len(cs) \in {3, 4} /\ \A i \in 1..Len(cs) : cs[i] \in Digit

\* C5: normalize_time returns None for "?" or an empty text; a bare 3- or
\* 4-digit text left-padded to 4 digits with a colon after the second digit, no
\* range validation; otherwise the HH:MM rendering of a 12-hour time with
\* meridiem, else of a 24-hour HH:MM time, else None; so every result is None
\* or a text DD:DD.
C5_TimeContract ==
    fn = "normalize_time" =>
        LET core == TextCore(arg) IN
        /\ ~ret.raised
        /\ NoneOrClock(ret.value)
        /\ IF core \in {<<>>, <<"?">>} THEN ret.value = None
           ELSE IF BareDigits34(core)
           THEN LET d == IF Len(core) = 3 THEN <<"0">> \o core ELSE core
                IN  ret.value = Str(<<d[1], d[2], ":", d[3], d[4]>>)
           ELSE IF Readings12(core) # {} THEN ret.value \in {Str(r) : r \in Readings12(core)}
           ELSE IF Readings24(core) # {} THEN ret.value \in {Str(r) : r \in Readings24(core)}
           ELSE ret.value = None
        /\ arg = Chars("1600") => ret.value = Str(Chars("16:00"))
        /\ arg = Chars("400") => ret.value = Str(Chars("04:00"))
        /\ arg = Chars("4:00 PM") => ret.value = Str(Chars("16:00"))
        /\ arg = Chars("?") => ret.value = None
        /\ arg = Chars("garbage") => ret.value = None

\* C5 witness: a 12-hour time with meridiem has been rendered in 24-hour form
C5_Witness ==
    /\ fn = "normalize_time"
    /\ arg = Chars("12:30 AM")
    /\ ret = Returned(Str(Chars("00:30")))

\* C3: normalization never raises: whatever the cell text, normalize_time and
\* parse_passengers_crew return, with None for what they could not parse.
C3_NormalizationNeverRaises ==
    /\ fn = "normalize_time" => ~ret.raised /\ NoneOrClock(ret.value)
    /\ fn = "parse_passengers_crew" => ~ret.raised

\* the integer formed by the leading digits of the text, None when there are none
ExpectedTotal(text) ==
    LET lead == {k \in 0..Len(text) : \A i \in 1..k : text[i] \in Digit}
        k == CHOOSE x \in lead : \A y \in lead : y <= x
    IN  IF k = 0 THEN None ELSE PyInt(DigitsValue(SubSeq(text, 1, k)))

\* the integer after the first occurrence of the marker that a digit or "?"
\* follows; None when the sub-value is not a number or there is no occurrence
ExpectedSubValue(text, marker) ==
    LET n == Len(marker)
        occ == {i \in 1..(Len(text) - n) :
                   SubSeq(text, i, i + n - 1) = marker /\ text[i + n] \in DigitOrQ}
    IN  IF occ = {} THEN None
        ELSE LET first == CHOOSE i \in occ : \A j \in occ : i <= j
                 ends == {e \in (first + n)..Len(text) :
                            \A i \in (first + n)..e : text[i] \in DigitOrQ}
                 last == CHOOSE e \in ends : \A f \in ends : f <= e
                 sub == SubSeq(text, first + n, last)
             IN  IF \A i \in 1..Len(sub) : sub[i] \in Digit
                 THEN PyInt(DigitsValue(sub))
                 ELSE None

\* C4: for every count text parse_passengers_crew returns Total = the integer
\* of the leading digits (None without one), and Passengers and Crew = the
\* integer after "passengers:" / "crew:", None when it is "?" or absent.
C4_CountContract ==
    fn = "parse_passengers_crew" =>
        /\ ~ret.raised
        /\ ret.value = <<ExpectedTotal(arg),
                         ExpectedSubValue(arg, Chars("passengers:")),
                         ExpectedSubValue(arg, Chars("crew:"))>>
        /\ arg = Chars("7 (passengers:6 crew:1)") => ret.value = <<PyInt(7), PyInt(6), PyInt(1)>>
        /\ arg = Chars("8 (passengers:? crew:?)") => ret.value = <<PyInt(8), None, None>>
        /\ arg = Chars("?") => ret.value = <<None, None, None>>

\* the statement of C4 on the calls that return: it holds of every one of them
CountContractWhenReturned ==
    fn = "parse_passengers_crew" /\ ~ret.raised =>
        ret.value = <<ExpectedTotal(arg),
                      ExpectedSubValue(arg, Chars("passengers:")),
                      ExpectedSubValue(arg, Chars("crew:"))>>

-----------------------------------------------------------------------------
(* The specification of the row extraction: one table, one extraction *)

MaxRows == 2

\* rows as the site writes them, and rows the extraction has to pass over
SampleRows ==
    {<<Chars("Date:"), Chars("Jan 01")>>,
     <<Chars("Date:"), Chars("Feb 02")>>,
     <<Chars("Time:"), Chars("1600")>>,
     <<Chars(" Location: "), Chars(" ? ")>>,
     <<Chars("Aboard:"), Chars("7 (passengers:6 crew:1)")>>,
     <<Chars("Aboard:"), Chars("8 (passengers:? crew:?)")>>,
     <<Chars("Fatalities:"), Chars("2 (passengers:1? crew:1)")>>,
     <<Chars("Photo:"), Chars("none")>>,
     <<Chars("Aboard Total:"), Chars("99")>>,
     <<Chars("cn / ln"), Chars("123")>>,
     <<Chars("Summary:")>>,
     <<Chars("Ground:"), Chars("0"), Chars("extra")>>}

RECURSIVE TablesOfLen(_)
TablesOfLen(k) ==
    IF k = 0 THEN {<<>>}
    ELSE {<<r>> \o t : r \in SampleRows, t \in TablesOfLen(k - 1)}
SampleTables == UNION {TablesOfLen(k) : k \in 0..MaxRows}

InitExtract ==
    /\ ScrapeInit
    /\ fn = "none"
    /\ arg \in SampleTables
    /\ ret = [raised |-> FALSE, value |-> EmptyDict]

\* lines 139-164 on the table arg
ExtractPage ==
    /\ fn = "none"
    /\ fn' = "extract"
    /\ ret' = ExtractRecord(arg)
    /\ UNCHANGED <<arg, ScrapeVars>>

NextExtract == ExtractPage

SpecExtract == InitExtract /\ [][NextExtract]_vars

-----------------------------------------------------------------------------
(* Row extraction: what the record is specified to hold *)

\* the label of a row: the text of its first cell without blanks around it
\* and without colons
RowLabel(row) == SelectSeq(TextCore(row[1]), LAMBDA ch : ch # ":")
Recognized(row) == Len(row) = 2 /\ \E f \in FieldSet : Chars(f) = RowLabel(row)
RowField(row) == CHOOSE f \in FieldSet : Chars(f) = RowLabel(row)
KeysFor(f) ==
    IF f \in {"Aboard", "Fatalities"}
    THEN {f \o " Total", f \o " Passengers", f \o " Crew"}
    ELSE {f}

\* what the value cell of a recognized row is stored as, key by key
StoredFor(row) ==
    LET f == RowField(row)
        v == TextCore(row[2])
    IN  IF f = "Time" THEN [k \in {f} |-> normalize_time(v).value]
        ELSE IF f \in {"Aboard", "Fatalities"}
        THEN f \o " Total" :> parse_passengers_crew(v).value[1]
             @@ f \o " Passengers" :> parse_passengers_crew(v).value[2]
             @@ f \o " Crew" :> parse_passengers_crew(v).value[3]
        ELSE [k \in {f} |-> IF v = <<"?">> THEN None ELSE Str(v)]

-----------------------------------------------------------------------------
(* scrape(): pagination, delays and order *)

IsGet(i) == events[i].ev = "get"
\* j is the first page request after the page request i
NextGet(i, j) ==
    /\ i < j /\ IsGet(i) /\ IsGet(j)
    /\ \A k \in (i + 1)..(j - 1) : ~IsGet(k)
RecordsOfYear(y) ==
    {i \in 1..Len(all_crashes) :
        \E p \in 1..(MaxPage + 1) : all_crashes[i]["Url"] = Str(Url(y, p))}

\* C1: once a page request of a year is answered non-200 or without a crash
\* table, no further page of that year is requested and the next request is
\* page 1 of the next year; if that was page 1, the year has no record.
C1_PaginationStops ==
    \A i \in 1..Len(events) :
        IsGet(i) /\ events[i].out \in {"non-200", "no table"} =>
            /\ \A j \in (i + 1)..Len(events) :
                  /\ IsGet(j) => events[j].year > events[i].year
                  /\ NextGet(i, j) =>
                        events[j].year = events[i].year + 1 /\ events[j].page = 1
            /\ i = Len(events) => pc # "fetch" \/ (year = events[i].year + 1 /\ page = 1)
            /\ events[i].page = 1 =>
                  /\ RecordsOfYear(events[i].year) = {}
                  /\ \A j \in 1..Len(events) :
                        ~(IsGet(j) /\ events[j].year = events[i].year /\ events[j].page = 2)

\* C1 witness: page 1 of the first year was answered non-200 and the next year
\* has been asked for
C1_Witness ==
    /\ Len(events) >= 2
    /\ events[1] = GetEvent(START_YEAR, 1, "non-200")
    /\ events[2].ev = "get"
    /\ events[2].year = START_YEAR + 1

\* C7: between any page request and the next page request there is a sleep of
\* DELAY seconds, whatever the first one was answered.
C7_DelayBetweenFetches ==
    \A i, j \in 1..Len(events) :
        NextGet(i, j) => \E k \in (i + 1)..(j - 1) : events[k] = SleepEvent

\* the locations of the records before index k, each once, in record order
RECURSIVE LocationsBefore(_)
LocationsBefore(k) ==
    IF k <= 1 THEN <<>>
    ELSE LET before == LocationsBefore(k - 1)
             crash == all_crashes[k - 1]
         IN  IF /\ "Location" \in DOMAIN crash
                /\ crash["Location"] \notin {None, Str(<<>>)}
                /\ \A n \in 1..Len(before) : before[n] # crash["Location"].s
             THEN Append(before, crash["Location"].s)
             ELSE before

Lookups == SelectSeq(events, LAMBDA e : e.ev = "lookup")

\* C8: page requests go by ascending year and, within a year, by ascending page
\* from 1 without a gap; no lookup is sent before the last page request; the
\* geocoding pass takes the records in the order they were appended; the file
\* is written only after the geocoding pass.
C8_Ordering ==
    /\ \A i \in 1..Len(events) :
          IsGet(i) /\ (\A k \in 1..(i - 1) : ~IsGet(k)) =>
              events[i].year = START_YEAR /\ events[i].page = 1
    /\ \A i, j \in 1..Len(events) :
          NextGet(i, j) =>
              \/ events[j].year = events[i].year /\ events[j].page = events[i].page + 1
              \/ events[j].year = events[i].year + 1 /\ events[j].page = 1
    /\ \A i, j \in 1..Len(events) :
          i < j => ~(events[i].ev \in {"lookup", "write"} /\ events[j].ev = "get")
    /\ pc = "fetch" => gi = 1
    /\ gi <= Len(all_crashes) + 1
    /\ [n \in 1..Len(Lookups) |-> Lookups[n].loc] = LocationsBefore(gi)
    /\ \A i \in 1..Len(all_crashes) : "Latitude" \in DOMAIN all_crashes[i] => i < gi
    /\ \A i \in 1..Len(events) : events[i].ev = "write" => i = Len(events)
    /\ csv # <<>> =>
          /\ pc = "done"
          /\ gi = Len(all_crashes) + 1
          /\ events[Len(events)] = WriteEvent
          /\ Len(csv[1].rows) = Len(all_crashes)

\* C8 witness: the file is written after two lookups and pages of two years
C8_Witness ==
    /\ pc = "done"
    /\ Len(Lookups) = 2
    /\ \E i \in 1..Len(events) : IsGet(i) /\ events[i].year = START_YEAR + 1

-----------------------------------------------------------------------------
(* scrape(): the records after they are appended *)

\* C6 as stated: no step changes a record that is in all_crashes.
C6_ImmutableOnceAppended ==
    [][\A i \in 1..Len(all_crashes) :
          Len(all_crashes') >= i /\ all_crashes'[i] = all_crashes[i]]_vars

\* C6 amended: no step removes or changes a key or a value of a record that is
\* in all_crashes; the one change made to it is the geocoding loop adding the
\* keys Latitude and Longitude to the record it is at, if it has a location.
C6_OnlyCoordinatesAdded ==
    [][\A i \in 1..Len(all_crashes) :
          /\ Len(all_crashes') >= i
          /\ \A k \in DOMAIN all_crashes[i] :
                k \in DOMAIN all_crashes'[i] /\ all_crashes'[i][k] = all_crashes[i][k]
          /\ (DOMAIN all_crashes'[i]) \ (DOMAIN all_crashes[i]) \subseteq {"Latitude", "Longitude"}
          /\ all_crashes'[i] # all_crashes[i] =>
                /\ pc = "geocode" /\ i = gi
                /\ "Location" \in DOMAIN all_crashes[i]
                /\ all_crashes[i]["Location"] \notin {None, Str(<<>>)}
                /\ DOMAIN all_crashes'[i] = (DOMAIN all_crashes[i]) \cup {"Latitude", "Longitude"}]_vars

\* C6 witness: the geocoding loop has added coordinates to an appended record
C6_Witness ==
    \E i \in 1..Len(all_crashes) :
        /\ "Latitude" \in DOMAIN all_crashes[i]
        /\ all_crashes[i]["Latitude"] # None

-----------------------------------------------------------------------------
(* scrape(): the geocoding pass and the cache *)

LookupsFor(location) ==
    {k \in 1..Len(events) : events[k].ev = "lookup" /\ events[k].loc = location}
Located(i) ==
    "Location" \in DOMAIN all_crashes[i] /\ all_crashes[i]["Location"] \notin {None, Str(<<>>)}
\* the raw location strings geocode_location has been called with
Geocoded == {all_crashes[i]["Location"].s : i \in {n \in 1..(gi - 1) : Located(n)}}

OneLookupPerString ==
    /\ \A s \in Geocoded : Cardinality(LookupsFor(s)) = 1 /\ s \in DOMAIN location_cache
    /\ \A k \in 1..Len(events) : events[k].ev = "lookup" => events[k].loc \in Geocoded

\* C2: each distinct raw location string given to geocode_location is looked
\* up exactly once, however many records carry it; a lookup that fails or finds
\* nothing is cached as (None, None), and a cached string is not looked up again.
C2_OneLookupPerString ==
    [][/\ OneLookupPerString'
       /\ (GeocodeServiceFails \/ GeocodeServiceNoResult) /\ Len(events') = Len(events) + 2 =>
              location_cache'[all_crashes[gi]["Location"].s] = NoPair
       /\ pc = "geocode" /\ gi <= Len(all_crashes) /\ Located(gi)
             /\ all_crashes[gi]["Location"].s \in DOMAIN location_cache =>
              /\ location_cache' = location_cache
              /\ events' = Append(events, SleepEvent)]_vars

\* C2 witness: two records with the same location have been geocoded, the one
\* lookup sent for it failed and stays cached as (None, None)
C2_Witness ==
    /\ gi = 3
    /\ Located(1) /\ Located(2)
    /\ all_crashes[1]["Location"] = all_crashes[2]["Location"]
    /\ Cardinality(LookupsFor(all_crashes[1]["Location"].s)) = 1
    /\ location_cache[all_crashes[1]["Location"].s] = NoPair

\* C10: after the geocoding pass a record has the keys Latitude and Longitude
\* if and only if it has a Location that is neither None nor empty, and two
\* records with the same Location have the same (Latitude, Longitude),
\* whatever the service would answer to a second request.
C10_CoordinatesIffLocation ==
    pc \in {"geocode", "done"} /\ gi > Len(all_crashes) =>
        /\ \A i \in 1..Len(all_crashes) :
              /\ "Latitude" \in DOMAIN all_crashes[i] <=> Located(i)
              /\ "Longitude" \in DOMAIN all_crashes[i] <=> Located(i)
        /\ \A i, j \in 1..Len(all_crashes) :
              Located(i) /\ Located(j) /\ all_crashes[i]["Location"] = all_crashes[j]["Location"] =>
                  /\ all_crashes[i]["Latitude"] = all_crashes[j]["Latitude"]
                  /\ all_crashes[i]["Longitude"] = all_crashes[j]["Longitude"]

\* C10 witness: after the pass, two records share a location and its coordinates
C10_Witness ==
    /\ pc = "done"
    /\ \E i, j \in 1..Len(all_crashes) :
          /\ i # j
          /\ Located(i) /\ Located(j)
          /\ all_crashes[i]["Location"] = all_crashes[j]["Location"]
          /\ all_crashes[i]["Latitude"] # None

====
